---- MODULE Spec2Model ----
(***************************************************************************)
(* sigma-compress: the Compressor engine (src/src/lib.rs) and its four     *)
(* codecs (huffman.rs, lz4_wrapper.rs, entropy.rs, semantic.rs).           *)
(*                                                                         *)
(* Byte buffers are sequences of naturals 0..255.  usize is 64 bits wide:  *)
(* no length or position of the model comes near 2^64, so positions are    *)
(* plain naturals.  The original_size of an envelope is any usize; one of  *)
(* 2^63 or more is written as the negative integer with the same 64 bits   *)
(* (usize::MAX is -1).  A Rust panic (index out of bounds, capacity        *)
(* overflow) is the outcome status "panic".                                *)
(***************************************************************************)
EXTENDS Integers, Sequences, FiniteSets, TLC

(***************************************************************************)
(* Bounds of the model.                                                    *)
(***************************************************************************)
MaxLen == 3          \* longest enumerated input
MaxDrop == 2         \* most bytes a truncation removes from, or keeps of, a buffer
MaxRawLen == 3       \* longest hand-built compressed buffer
MaxTamperSize == 24  \* largest envelope whose copies are tampered with
MaxPatch == 4        \* a patched byte lies within this many bytes of either end

(***************************************************************************)
(* Program constants.                                                      *)
(***************************************************************************)
DefaultLz4BlockSize == 65536
TestLz4BlockSize == 1024
DedupBlockSize == 64
MaxRun == 255
LargeSize == 4096
DedupMinSize == 256
RepetitionMinSize == 128

Methods == {"Huffman", "Lz4Semantic", "EntropyCoding", "SemanticDedupe", "Auto"}
Codecs == Methods \ {"Auto"}

(***************************************************************************)
(* Generic helpers.                                                        *)
(***************************************************************************)
Min(a, b) == IF a < b THEN a ELSE b
Max(a, b) == IF a > b THEN a ELSE b

\* A left fold of Op over the indices lo..hi, in increasing order: the
\* loops "for x in ..." of the source.  The range is halved so that the
\* evaluation depth stays logarithmic; the left half is evaluated (s1 = s1)
\* before the right half starts from it.
RECURSIVE FoldRange(_, _, _, _)
FoldRange(Op(_, _), st, lo, hi) ==
  IF lo > hi THEN st
  ELSE IF lo = hi THEN Op(st, lo)
  ELSE LET mid == (lo + hi) \div 2
           s1 == FoldRange(Op, st, lo, mid)
       IN  IF s1 = s1 THEN FoldRange(Op, s1, mid + 1, hi) ELSE st

\* "for _ in 0..count { body }" with early return: Body runs count times,
\* or until it sets st.halt; no iteration is visited after that.
RECURSIVE LoopRange(_, _, _, _)
LoopRange(Body(_), st, lo, hi) ==
  IF lo > hi \/ st.halt THEN st
  ELSE IF lo = hi THEN Body(st)
  ELSE LET mid == (lo + hi) \div 2
           s1 == LoopRange(Body, st, lo, mid)
       IN  IF s1.halt THEN s1 ELSE LoopRange(Body, s1, mid + 1, hi)

Loop(Body(_), st, count) == LoopRange(Body, st, 1, count)

\* u16 / u32 to_le_bytes and from_le_bytes
LE16(x) == << x % 256, (x \div 256) % 256 >>
LE32(x) == << x % 256, (x \div 256) % 256, (x \div 65536) % 256, (x \div 16777216) % 256 >>
FromLE16(d, pos) == d[pos + 1] + 256 * d[pos + 2]
\* A u32 of 2^30 or more is read as 2^30: every buffer of the model is far
\* shorter, and the source only compares such a value with lengths and
\* positions or counts loop rounds that end at the end of the buffer.
FromLE32(d, pos) ==
  IF d[pos + 4] >= 64 THEN 1073741824
  ELSE d[pos + 1] + 256 * d[pos + 2] + 65536 * d[pos + 3] + 16777216 * d[pos + 4]

\* data[from .. to) with 0-based positions, as the slices of the source
Slice(d, from, to) == SubSeq(d, from + 1, to)

\* data.chunks(size): consecutive chunks, the last possibly shorter
Chunks(d, size) ==
  [j \in 1..((Len(d) + size - 1) \div size) |->
      Slice(d, (j - 1) * size, Min(j * size, Len(d)))]

\* The outcome of a codec call: Result<Vec<u8>, CompressError>, or a panic.
Ok(bytes) == [status |-> "ok", err |-> "none", bytes |-> bytes]
Err(kind) == [status |-> "err", err |-> kind, bytes |-> << >>]
Panic == [status |-> "panic", err |-> "panic", bytes |-> << >>]

\* usize::MAX, and Vec::<u8>::with_capacity(n), which panics with "capacity
\* overflow" when n exceeds isize::MAX
UsizeMax == -1
CapacityOverflow(n) == n < 0

(***************************************************************************)
(* entropy.rs: run-length coder.                                           *)
(***************************************************************************)
\* The nested while loops of compress: a byte extends the run in progress
\* while it equals the run's byte and the run is shorter than 255, and
\* starts a new (run, byte) pair otherwise.
entropy_compress_run256(data) ==
  LET Step(out, i) ==
        LET m == Len(out) IN
        IF m > 0 /\ out[m] = data[i] /\ out[m - 1] <= MaxRun
        THEN [out EXCEPT ![m - 1] = @ + 1]
        ELSE out \o << 1, data[i] >>
  IN  Ok(FoldRange(Step, << >>, 1, Len(data)))

entropy_compress(data) ==
  LET Step(out, i) ==
        LET m == Len(out) IN
        IF m > 0 /\ out[m] = data[i] /\ out[m - 1] < MaxRun
        THEN [out EXCEPT ![m - 1] = @ + 1]
        ELSE out \o << 1, data[i] >>
  IN  Ok(FoldRange(Step, << >>, 1, Len(data)))

entropy_decompress_once(data, original_size) ==
  IF Len(data) % 2 # 0 THEN Err("EntropyError")
  ELSE IF CapacityOverflow(original_size) THEN Panic
  ELSE Ok([p \in 1..(Len(data) \div 2) |-> data[2 * p]])

entropy_decompress(data, original_size) ==
  IF Len(data) % 2 # 0 THEN Err("EntropyError")
  ELSE IF CapacityOverflow(original_size) THEN Panic
  ELSE LET Step(out, p) ==
             LET run == data[2 * p - 1]
                 byte == data[2 * p]
             IN  out \o [k \in 1..run |-> byte]
       IN  Ok(FoldRange(Step, << >>, 1, Len(data) \div 2))

(***************************************************************************)
(* semantic.rs: content-addressable deduplication.                         *)
(***************************************************************************)
\* position (1-based) of block in the sequence uniq, 0 when absent
IndexOf(uniq, block) ==
  IF \E j \in 1..Len(uniq) : uniq[j] = block
  THEN CHOOSE j \in 1..Len(uniq) : uniq[j] = block
  ELSE 0

\* The first loop of compress: unique_blocks maps a block to the index it
\* got on first occurrence (the map's size then); sorted by that index the
\* map is the sequence uniq.
DedupTableByPosition(data) ==
  LET chunks == Chunks(data, DedupBlockSize)
      Step(st, j) ==
        LET at == IndexOf(st.uniq, chunks[j]) IN
        IF at = 0
        THEN [uniq |-> Append(st.uniq, chunks[j]), refs |-> Append(st.refs, Len(st.refs))]
        ELSE [uniq |-> st.uniq, refs |-> Append(st.refs, at - 1)]
  IN  FoldRange(Step, [uniq |-> << >>, refs |-> << >>], 1, Len(chunks))

DedupTable(data) ==
  LET chunks == Chunks(data, DedupBlockSize)
      Step(st, j) ==
        LET at == IndexOf(st.uniq, chunks[j]) IN
        IF at = 0
        THEN [uniq |-> Append(st.uniq, chunks[j]), refs |-> Append(st.refs, Len(st.uniq))]
        ELSE [uniq |-> st.uniq, refs |-> Append(st.refs, at - 1)]
  IN  FoldRange(Step, [uniq |-> << >>, refs |-> << >>], 1, Len(chunks))

semantic_compress(data, threshold) ==
  LET t == DedupTable(data)
      PutBlock(out, j) == out \o LE32(Len(t.uniq[j])) \o t.uniq[j]
      PutRef(out, j) == out \o LE32(t.refs[j])
      blocks == FoldRange(PutBlock, LE32(Len(t.uniq)), 1, Len(t.uniq))
      withCount == blocks \o LE32(Len(t.refs))
  IN  Ok(FoldRange(PutRef, withCount, 1, Len(t.refs)))

\* The block-table loop of decompress: st.pos is the read position, st.err
\* is set by the early returns.
SemanticReadBlocks(data, num_unique) ==
  LET Body(st) ==
        IF st.pos + 4 > Len(data) THEN [st EXCEPT !.halt = TRUE, !.err = TRUE]
        ELSE LET blen == FromLE32(data, st.pos)
                 p == st.pos + 4
             IN  IF p + blen > Len(data) THEN [st EXCEPT !.halt = TRUE, !.err = TRUE]
                 ELSE [st EXCEPT !.pos = p + blen,
                                 !.blocks = Append(@, Slice(data, p, p + blen))]
  IN  Loop(Body, [pos |-> 4, halt |-> FALSE, err |-> FALSE, blocks |-> << >>], num_unique)

\* The reference loop of decompress.
SemanticReadRefsLenient(data, blocks, from, num_refs) ==
  LET Body(st) ==
        IF st.pos + 4 > Len(data) THEN [st EXCEPT !.halt = TRUE, !.err = TRUE]
        ELSE LET idx == FromLE32(data, st.pos) IN
             IF idx >= Len(blocks) THEN [st EXCEPT !.pos = @ + 4]
             ELSE [st EXCEPT !.pos = @ + 4, !.out = @ \o blocks[idx + 1]]
  IN  Loop(Body, [pos |-> from, halt |-> FALSE, err |-> FALSE, out |-> << >>], num_refs)

SemanticReadRefs(data, blocks, from, num_refs) ==
  LET Body(st) ==
        IF st.pos + 4 > Len(data) THEN [st EXCEPT !.halt = TRUE, !.err = TRUE]
        ELSE LET idx == FromLE32(data, st.pos) IN
             IF idx >= Len(blocks) THEN [st EXCEPT !.halt = TRUE, !.err = TRUE]
             ELSE [st EXCEPT !.pos = @ + 4, !.out = @ \o blocks[idx + 1]]
  IN  Loop(Body, [pos |-> from, halt |-> FALSE, err |-> FALSE, out |-> << >>], num_refs)

semantic_decompress(data, original_size) ==
  IF Len(data) < 4 THEN Err("SemanticError")
  ELSE LET num_unique == FromLE32(data, 0)
           tb == SemanticReadBlocks(data, num_unique)
       IN  IF tb.err THEN Err("SemanticError")
           ELSE IF tb.pos + 4 > Len(data) THEN Err("SemanticError")
           ELSE LET num_refs == FromLE32(data, tb.pos)
                    rf == SemanticReadRefs(data, tb.blocks, tb.pos + 4, num_refs)
                IN  IF rf.err THEN Err("SemanticError") ELSE Ok(rf.out)

(***************************************************************************)
(* lz4_wrapper.rs: block framing around the DEFLATE collaborator.          *)
(***************************************************************************)
\* flate2's DeflateEncoder / DeflateDecoder are outside the repository.
\* They are modelled by DEFLATE's stored-block form, a stream every DEFLATE
\* decoder accepts: [BFINAL=1,BTYPE=00][LEN:u16][NLEN:u16][LEN raw bytes].
\* Chunks of the model are shorter than 65536 bytes, so one block suffices.
lz4_compress_block(chunk) ==
  Ok(<< 1 >> \o LE16(Len(chunk)) \o LE16(65535 - Len(chunk)) \o chunk)

\* A stream that ends early yields the bytes decoded so far (read_to_end
\* sees end of input); a bad header is "corrupt deflate stream".
lz4_decompress_block(block) ==
  IF Len(block) < 5 THEN Ok(<< >>)
  ELSE IF block[1] # 1 \/ FromLE16(block, 1) + FromLE16(block, 3) # 65535
       THEN Err("Lz4Error")
  ELSE Ok(Slice(block, 5, Min(5 + FromLE16(block, 1), Len(block))))

lz4_compress(data, block_size) ==
  LET chunks == Chunks(data, block_size)
      num_blocks == (Len(data) + block_size - 1) \div block_size
      Body(st) ==
        LET chunk == chunks[st.j]
            compressed == lz4_compress_block(chunk)
        IN  IF compressed.status # "ok" THEN [st EXCEPT !.halt = TRUE, !.err = TRUE]
            ELSE [st EXCEPT !.j = @ + 1,
                            !.out = @ \o LE32(Len(chunk)) \o LE32(Len(compressed.bytes))
                                      \o compressed.bytes]
      r == Loop(Body, [j |-> 1, halt |-> FALSE, err |-> FALSE, out |-> LE32(num_blocks)],
                Len(chunks))
  IN  IF r.err THEN Err("Lz4Error") ELSE Ok(r.out)

lz4_decompress(data, original_size) ==
  IF Len(data) < 4 THEN Err("Lz4Error")
  ELSE IF CapacityOverflow(original_size) THEN Panic
  ELSE LET num_blocks == FromLE32(data, 0)
           Body(st) ==
             IF st.pos + 8 > Len(data) THEN [st EXCEPT !.halt = TRUE, !.err = TRUE]
             ELSE LET comp_len == FromLE32(data, st.pos + 4)
                      p == st.pos + 8
                  IN  IF p + comp_len > Len(data) THEN [st EXCEPT !.halt = TRUE, !.err = TRUE]
                      ELSE LET block == lz4_decompress_block(Slice(data, p, p + comp_len)) IN
                           IF block.status # "ok" THEN [st EXCEPT !.halt = TRUE, !.err = TRUE]
                           ELSE [st EXCEPT !.pos = p + comp_len, !.out = @ \o block.bytes]
           r == Loop(Body, [pos |-> 4, halt |-> FALSE, err |-> FALSE, out |-> << >>], num_blocks)
       IN  IF r.err THEN Err("Lz4Error") ELSE Ok(r.out)

(***************************************************************************)
(* huffman.rs                                                              *)
(***************************************************************************)
None == -1
NoKids == << >>

\* struct HuffNode; symbol is None for internal nodes, kids is <<left, right>>
HuffNode(freq, symbol, kids) == [freq |-> freq, symbol |-> symbol, kids |-> kids]

\* the byte values that occur in data, and the histogram freq restricted to them
Symbols(data) == {data[i] : i \in 1..Len(data)}
Histogram(data) ==
  [b \in Symbols(data) |-> Cardinality({i \in 1..Len(data) : data[i] = b})]

\* the elements of a set of naturals in ascending order
RECURSIVE SortedSeq(_)
SortedSeq(S) ==
  IF S = {} THEN << >>
  ELSE LET m == CHOOSE x \in S : \A y \in S : x <= y
       IN  << m >> \o SortedSeq(S \ {m})

Reverse(q) == [j \in 1..Len(q) |-> q[Len(q) + 1 - j]]
RemoveAt(q, j) == SubSeq(q, 1, j - 1) \o SubSeq(q, j + 1, Len(q))

\* BinaryHeap::pop on the min-heap: Ord compares freq only, so which of
\* several nodes of least freq comes out is up to the heap's layout.  The
\* heap is kept in insertion order and tie says which of them is taken.
HeapPopIndex(heap, tie) ==
  LET least == {j \in 1..Len(heap) : \A k \in 1..Len(heap) : heap[j].freq <= heap[k].freq}
  IN  IF tie = "first"
      THEN CHOOSE j \in least : \A k \in least : j <= k
      ELSE CHOOSE j \in least : \A k \in least : j >= k

\* while heap.len() > 1 { pop left, pop right, push their parent }
RECURSIVE MergeNodes(_, _)
MergeNodes(heap, tie) ==
  IF Len(heap) <= 1 THEN heap
  ELSE LET i == HeapPopIndex(heap, tie)
           left == heap[i]
           h1 == RemoveAt(heap, i)
           j == HeapPopIndex(h1, tie)
           right == h1[j]
           h2 == RemoveAt(h1, j)
       IN  MergeNodes(Append(h2, HuffNode(left.freq + right.freq, None, << left, right >>)), tie)

\* build_tree: Option<HuffNode> as a sequence, << >> for None
build_tree(data, tie) ==
  LET freq == Histogram(data)
      syms == SortedSeq(Symbols(data))
      heap == [j \in 1..Len(syms) |-> HuffNode(freq[syms[j]], syms[j], NoKids)]
  IN  IF Len(heap) = 0 THEN << >>
      ELSE IF Len(heap) = 1
           THEN << HuffNode(heap[1].freq, None, << heap[1], HuffNode(0, None, NoKids) >>) >>
      ELSE MergeNodes(heap, tie)

\* build_codes: the set of (symbol, code) pairs the walk inserts into codes;
\* a code is a sequence of booleans
RECURSIVE build_codes_same_bit(_, _)
build_codes_same_bit(node, prefix) ==
  IF node.symbol # None
  THEN {<< node.symbol, IF prefix = << >> THEN << FALSE >> ELSE prefix >>}
  ELSE IF node.kids = NoKids THEN {}
  ELSE build_codes_same_bit(node.kids[1], Append(prefix, FALSE))
         \cup build_codes_same_bit(node.kids[2], Append(prefix, FALSE))

RECURSIVE build_codes(_, _)
build_codes(node, prefix) ==
  IF node.symbol # None
  THEN {<< node.symbol, IF prefix = << >> THEN << FALSE >> ELSE prefix >>}
  ELSE IF node.kids = NoKids THEN {}
  ELSE build_codes(node.kids[1], Append(prefix, FALSE))
         \cup build_codes(node.kids[2], Append(prefix, TRUE))

CodeOf(codes, sym) == (CHOOSE c \in codes : c[1] = sym)[2]

Pow2(k) == IF k = 0 THEN 1 ELSE IF k = 1 THEN 2 ELSE IF k = 2 THEN 4 ELSE IF k = 3 THEN 8
           ELSE IF k = 4 THEN 16 ELSE IF k = 5 THEN 32 ELSE IF k = 6 THEN 64 ELSE 128
\* (byte >> k) & 1 == 1
BitAtMsbFirst(byte, k) == (byte \div Pow2(7 - k)) % 2 = 1
BitAt(byte, k) == (byte \div Pow2(k)) % 2 = 1

\* the bit-packing loops of compress: LSB first, the last byte zero-padded
PackBitsPerBit(bits) == [j \in 1..Len(bits) |-> IF bits[j] THEN 1 ELSE 0]

PackBits(bits) ==
  LET Weight(j, k) ==
        IF 8 * (j - 1) + k + 1 <= Len(bits) /\ bits[8 * (j - 1) + k + 1] THEN Pow2(k) ELSE 0
  IN  [j \in 1..((Len(bits) + 7) \div 8) |->
         Weight(j, 0) + Weight(j, 1) + Weight(j, 2) + Weight(j, 3)
           + Weight(j, 4) + Weight(j, 5) + Weight(j, 6) + Weight(j, 7)]

\* one entry of the code table: symbol, code length, packed code
HuffmanEntry(sym, code) == << sym, Len(code) % 256 >> \o PackBits(code)

HuffmanTable(codes, syms) ==
  LET PutEntry(out, j) == out \o HuffmanEntry(syms[j], CodeOf(codes, syms[j]))
  IN  FoldRange(PutEntry, LE16(Cardinality(codes) % 65536), 1, Len(syms))

HuffmanBits(codes, data) ==
  LET PutCode(bits, i) == bits \o CodeOf(codes, data[i])
  IN  FoldRange(PutCode, << >>, 1, Len(data))

HuffmanOrder(asc, order) == IF order = "asc" THEN asc ELSE Reverse(asc)

HuffmanEncode(data, codes, order) ==
  Ok(HuffmanTable(codes, HuffmanOrder(SortedSeq({c[1] : c \in codes}), order))
       \o LE32(Len(data)) \o PackBits(HuffmanBits(codes, data)))

HuffmanWithTree(data, tree, order) ==
  IF tree = << >> THEN Err("HuffmanError")
  ELSE HuffmanEncode(data, build_codes(tree[1], << >>), order)

\* compress; order is the order in which the HashMap codes is iterated
\* ("asc" or "desc" by symbol; the source leaves it to the hasher)
huffman_compress(data, tie, order) == HuffmanWithTree(data, build_tree(data, tie), order)

\* The table loop of decompress.  st.table is code_to_symbol as the sequence
\* of its inserts; st.fail is "err" after an early return and "panic" after
\* an index outside data.
HuffmanReadTable(data, num_symbols) ==
  LET Body(st) ==
        IF st.pos >= Len(data) THEN [st EXCEPT !.halt = TRUE, !.fail = "err"]
        ELSE LET sym == data[st.pos + 1] IN
             IF st.pos + 1 >= Len(data) THEN [st EXCEPT !.halt = TRUE, !.fail = "panic"]
             ELSE LET code_len == data[st.pos + 2]
                      p == st.pos + 2
                      num_bytes == (code_len + 7) \div 8
                  IN  IF p + num_bytes > Len(data)
                      THEN [st EXCEPT !.halt = TRUE, !.fail = "err"]
                      ELSE LET code == [t \in 1..code_len |->
                                          BitAt(data[p + ((t - 1) \div 8) + 1], (t - 1) % 8)]
                           IN  [st EXCEPT !.pos = p + num_bytes,
                                          !.table = Append(@, << code, sym >>)]
  IN  Loop(Body, [pos |-> 2, halt |-> FALSE, fail |-> "none", table |-> << >>], num_symbols)

\* code_to_symbol.get(code): the last insert under that key, None if absent
TableGet(table, code) ==
  LET hits == {j \in 1..Len(table) : table[j][1] = code}
  IN  IF hits = {} THEN None
      ELSE table[CHOOSE j \in hits : \A k \in hits : j >= k][2]

\* The 'outer loop of decompress over the bits of data[pos..], in order.
HuffmanDecodeBits(data, pos, table, original_size) ==
  LET Body(st) ==
        LET byte == data[pos + (st.t \div 8) + 1]
            cur == Append(st.cur, BitAt(byte, st.t % 8))
            sym == TableGet(table, cur)
        IN  IF sym = None THEN [st EXCEPT !.t = @ + 1, !.cur = cur]
            ELSE [t |-> st.t + 1, cur |-> << >>, out |-> Append(st.out, sym),
                  halt |-> Len(st.out) + 1 >= original_size]
  IN  Loop(Body, [t |-> 0, cur |-> << >>, out |-> << >>, halt |-> FALSE],
           8 * (Len(data) - pos)).out

huffman_decompress(data, original_size) ==
  IF Len(data) < 2 THEN Err("HuffmanError")
  ELSE LET num_symbols == FromLE16(data, 0)
           tb == HuffmanReadTable(data, num_symbols)
       IN  IF tb.fail = "panic" THEN Panic
           ELSE IF tb.fail = "err" THEN Err("HuffmanError")
           ELSE IF tb.pos + 4 > Len(data) THEN Err("HuffmanError")
           ELSE IF CapacityOverflow(original_size) THEN Panic
           ELSE Ok(HuffmanDecodeBits(data, tb.pos + 4, tb.table, original_size))

(***************************************************************************)
(* lib.rs: entropy estimate, block repetition, method selection.           *)
(***************************************************************************)
\* f64 entropies are fixed-point numbers here: EntropyUnit is one bit per
\* byte.  Log2Fx(x) is log2(x) in that unit, exact when x is a power of two
\* and within a few thousandths of a bit otherwise.
EntropyUnit == 1024
MantissaOne == 16384

RECURSIVE TwoTo(_)
TwoTo(k) == IF k = 0 THEN 1 ELSE 2 * TwoTo(k - 1)

RECURSIVE FloorLog2(_)
FloorLog2(x) == IF x < 2 THEN 0 ELSE 1 + FloorLog2(x \div 2)

\* fractional bits of log2 by repeated squaring of the mantissa
RECURSIVE Log2Frac(_, _)
Log2Frac(m, weight) ==
  IF weight = 0 THEN 0
  ELSE LET sq == (m * m) \div MantissaOne IN
       IF sq >= 2 * MantissaOne
       THEN weight + Log2Frac(sq \div 2, weight \div 2)
       ELSE Log2Frac(sq, weight \div 2)

Log2Fx(x) ==
  LET e == FloorLog2(x)
      m == IF e <= 14 THEN x * TwoTo(14 - e) ELSE x \div TwoTo(e - 14)
  IN  e * EntropyUnit + Log2Frac(m, EntropyUnit \div 2)

RECURSIVE SumSeq(_)
SumSeq(q) == IF q = << >> THEN 0 ELSE Head(q) + SumSeq(Tail(q))

\* compute_entropy: -sum p*log2(p) with p = f/len, which is
\* log2(len) - (sum f*log2(f)) / len
compute_entropy(data) ==
  IF Len(data) = 0 THEN 0
  ELSE LET freq == Histogram(data)
           syms == SortedSeq(Symbols(data))
           len == Len(data)
       IN  (len * Log2Fx(len) - SumSeq([j \in 1..Len(syms) |-> freq[syms[j]] * Log2Fx(freq[syms[j]])]))
             \div len

\* The 64-bit FNV-1a hash of detect_block_repetition, as four 16-bit limbs
\* (least significant first).
FnvOffsetBasis == << 8997, 33826, 40164, 52210 >>    \* 0xcbf29ce484222325
Xor8(a, b) ==
  LET W(k) == IF BitAt(a, k) # BitAt(b, k) THEN Pow2(k) ELSE 0
  IN  W(0) + W(1) + W(2) + W(3) + W(4) + W(5) + W(6) + W(7)

\* h ^= b; h = h.wrapping_mul(0x100000001b3), and 0x100000001b3 = 2^40 + 435
FnvStep(h, b) ==
  LET x0 == (h[1] \div 256) * 256 + Xor8(h[1] % 256, b)
      r0 == x0 * 435
      r1 == h[2] * 435 + (r0 \div 65536)
      r2 == h[3] * 435 + x0 * 256 + (r1 \div 65536)
      r3 == h[4] * 435 + h[2] * 256 + (r2 \div 65536)
  IN  << r0 % 65536, r1 % 65536, r2 % 65536, r3 % 65536 >>

BlockHash(chunk) ==
  LET Step(h, i) == FnvStep(h, chunk[i])
  IN  FoldRange(Step, FnvOffsetBasis, 1, Len(chunk))

\* the loop of detect_block_repetition: the number of full blocks whose hash
\* was already in seen
DuplicateBlocks(data) ==
  LET chunks == Chunks(data, DedupBlockSize)
      Step(st, j) ==
        IF Len(chunks[j]) # DedupBlockSize THEN st
        ELSE LET hash == BlockHash(chunks[j]) IN
             IF hash \in st.seen THEN [st EXCEPT !.duplicates = @ + 1]
             ELSE [st EXCEPT !.seen = @ \cup {hash}]
  IN  FoldRange(Step, [seen |-> {}, duplicates |-> 0], 1, Len(chunks)).duplicates

\* duplicates / total_blocks > 0.1 is 10 * duplicates > total_blocks: the f64
\* quotient of two small integers exceeds the f64 nearest to 0.1 exactly when
\* the rational quotient exceeds 1/10
detect_block_repetition_late(data) ==
  IF Len(data) < 5 * DedupBlockSize THEN FALSE
  ELSE LET total_blocks == Len(data) \div DedupBlockSize
       IN  total_blocks > 0 /\ 10 * DuplicateBlocks(data) > total_blocks

detect_block_repetition(data) ==
  IF Len(data) < RepetitionMinSize THEN FALSE
  ELSE LET total_blocks == Len(data) \div DedupBlockSize
       IN  total_blocks > 0 /\ 10 * DuplicateBlocks(data) > total_blocks

select_method_inclusive(data) ==
  LET entropy == compute_entropy(data) IN
  IF entropy < 3 * EntropyUnit THEN "Huffman"
  ELSE IF Len(data) >= LargeSize THEN "Lz4Semantic"
  ELSE "EntropyCoding"

select_method(data) ==
  LET entropy == compute_entropy(data) IN
  IF entropy < 3 * EntropyUnit THEN "Huffman"
  ELSE IF Len(data) > LargeSize THEN "Lz4Semantic"
  ELSE "EntropyCoding"

(***************************************************************************)
(* lib.rs: Compressor.                                                     *)
(***************************************************************************)
\* A ratio compressed/original is the pair << compressed, original >>.
RatioLess(a, b) == a[1] * b[2] < b[1] * a[2]

NoEnv == [method |-> "none", original_size |-> 0, compressed_size |-> 0, data |-> << >>,
          ratio |-> << 0, 1 >>,
          metadata |-> [entropy_bits |-> 0, semantic_dedup_count |-> 0, block_count |-> 0]]

\* The outcome of compress / compress_adaptive: Result<CompressedOutput, _>,
\* with calls, the codecs invoked on the way, in order.
Produced(env, calls) == [status |-> "ok", err |-> "none", env |-> env, calls |-> calls]
Refused(kind, calls) == [status |-> "err", err |-> kind, env |-> NoEnv, calls |-> calls]

\* data.is_empty()
IsEmptyNever(data) == FALSE
IsEmpty(data) == Len(data) = 0

\* metadata.block_count
BlockCountCeil(self, data) ==
  Max((Len(data) + self.lz4_block_size - 1) \div self.lz4_block_size, 1)
BlockCount(self, data) == Max(Len(data) \div self.lz4_block_size, 1)

\* self is the CompressionConfig; host is what the platform decides for the
\* Huffman coder (heap tie order, HashMap iteration order).
compress_with(self, host, data, m) ==
  CASE m = "Huffman" -> huffman_compress(data, host.tie, host.order)
    [] m = "Lz4Semantic" -> lz4_compress(data, self.lz4_block_size)
    [] m = "EntropyCoding" -> entropy_compress(data)
    [] m = "SemanticDedupe" -> semantic_compress(data, self.dedup_threshold)

\* the CompressedOutput built around the codec's outcome
CompressedOutput(self, data, m, compressed) ==
  IF compressed.status # "ok" THEN Refused(compressed.err, << m >>)
  ELSE Produced(
         [method |-> m,
          original_size |-> Len(data),
          compressed_size |-> Len(compressed.bytes),
          data |-> compressed.bytes,
          ratio |-> << Len(compressed.bytes), Len(data) >>,
          metadata |-> [entropy_bits |-> compute_entropy(data),
                        semantic_dedup_count |-> 0,
                        block_count |-> BlockCount(self, data)]],
         << m >>)

compress_as(self, host, data, m) ==
  CompressedOutput(self, data, m, compress_with(self, host, data, m))

compress(self, host, data, method) ==
  IF IsEmpty(data) THEN Refused("EmptyInput", << >>)
  ELSE compress_as(self, host, data, IF method = "Auto" THEN select_method(data) ELSE method)

\* decompress: the codec's outcome, with the codecs invoked
decompress_auto_fallback(output) ==
  LET Via(r) == [status |-> r.status, err |-> r.err, bytes |-> r.bytes,
                 calls |-> << output.method >>]
  IN  CASE output.method = "Lz4Semantic" -> Via(lz4_decompress(output.data, output.original_size))
        [] output.method = "EntropyCoding" -> Via(entropy_decompress(output.data, output.original_size))
        [] output.method = "SemanticDedupe" -> Via(semantic_decompress(output.data, output.original_size))
        [] OTHER -> Via(huffman_decompress(output.data, output.original_size))

decompress(output) ==
  LET Via(r) == [status |-> r.status, err |-> r.err, bytes |-> r.bytes,
                 calls |-> << output.method >>]
  IN  CASE output.method = "Huffman" -> Via(huffman_decompress(output.data, output.original_size))
        [] output.method = "Lz4Semantic" -> Via(lz4_decompress(output.data, output.original_size))
        [] output.method = "EntropyCoding" -> Via(entropy_decompress(output.data, output.original_size))
        [] output.method = "SemanticDedupe" -> Via(semantic_decompress(output.data, output.original_size))
        [] OTHER -> [status |-> "err", err |-> "InvalidMethod", bytes |-> << >>, calls |-> << >>]

\* the candidate list of compress_adaptive
Candidates(data) ==
  LET entropy == compute_entropy(data)
      has_repeated_blocks == detect_block_repetition(data)
  IN  IF entropy < 2 * EntropyUnit THEN << "Huffman" >>
      ELSE IF has_repeated_blocks /\ Len(data) > DedupMinSize
           THEN << "SemanticDedupe", "Lz4Semantic" >>
      ELSE IF Len(data) > LargeSize THEN << "Lz4Semantic", "Huffman" >>
      ELSE << "EntropyCoding", "Huffman" >>

\* if best.as_ref().map_or(true, |b| result.ratio < b.ratio)
BetterOrEqual(result, best) == best = << >> \/ ~RatioLess(best[1].ratio, result.ratio)
Better(result, best) == best = << >> \/ RatioLess(result.ratio, best[1].ratio)

\* one turn of the loop over candidates
Consider(st, result) ==
  IF result.status = "ok" /\ Better(result.env, st.best)
  THEN [best |-> << result.env >>, calls |-> st.calls \o result.calls]
  ELSE [st EXCEPT !.calls = @ \o result.calls]

TryEach(self, host, data, candidates) ==
  LET Step(st, j) == Consider(st, compress(self, host, data, candidates[j]))
  IN  FoldRange(Step, [best |-> << >>, calls |-> << >>], 1, Len(candidates))

\* best.ok_or(CompressionError::EmptyInput)
OkOrEmptyInput(r) ==
  IF r.best = << >> THEN Refused("EmptyInput", r.calls) ELSE Produced(r.best[1], r.calls)

compress_adaptive(self, host, data) ==
  IF IsEmpty(data) THEN Refused("EmptyInput", << >>)
  ELSE OkOrEmptyInput(TryEach(self, host, data, Candidates(data)))

(***************************************************************************)
(* The inputs of the model.                                                *)
(***************************************************************************)
SmallBytes == {65, 66}
RawBytes == {0, 1, 2, 65}

\* every buffer over SmallBytes of at most MaxLen bytes, the empty one included
SmallInputs == UNION {[1..n -> SmallBytes] : n \in 0..MaxLen}

\* n bytes that cycle through k byte values in runs of run bytes
Gen(k, run, n) == [i \in 1..n |-> 97 + (((i - 1) \div run) % k)]

\* Samples that reach the size, entropy and repetition thresholds:
\*   << k, run, n >>        entropy  repeated blocks   n
SampleShapes ==
  { << 1, 1, 100 >>,     \* 0        no                one byte value, 100 times
    << 1, 1, 300 >>,     \* 0        yes               one run longer than 255
    << 4, 1, 16 >>,      \* 2.0      no
    << 4, 4, 16 >>,      \* 2.0      no                four runs of 4
    << 8, 1, 8 >>,       \* 3.0      no
    << 16, 1, 256 >>,    \* 4.0      yes               = 256
    << 16, 1, 260 >>,    \* < 4.0    yes               > 256
    << 9, 128, 1152 >>,  \* 3.17     yes               18 blocks, 9 of them repeats
    << 8, 1, 4096 >>,    \* 3.0      yes               = 4096
    << 9, 1, 4104 >>,    \* 3.17     yes               > 4096
    << 4, 65, 4160 >> }  \* 2.0      no                > 4096
\* 16 bytes, entropy 2.0, whose run-length and Huffman outputs are both 22 bytes
TieSample == << 97, 97, 98, 98, 99, 99, 100, 100, 100, 97, 98, 99, 97, 98, 99, 100 >>
SampleInputs == {Gen(sh[1], sh[2], sh[3]) : sh \in SampleShapes} \cup {TieSample}

Inputs == SmallInputs \cup SampleInputs

RawBuffers == UNION {[1..n -> RawBytes] : n \in 0..MaxRawLen}

\* CompressionConfig: the default, and the one of test_compression_config
Configs == {[lz4_block_size |-> bs, dedup_threshold |-> 95] :
              bs \in {DefaultLz4BlockSize, TestLz4BlockSize}}
Hosts == {[tie |-> "first", order |-> "asc"], [tie |-> "last", order |-> "desc"]}

(***************************************************************************)
(* The state machine: a Compressor and one caller.                         *)
(***************************************************************************)
VARIABLES
  self,     \* the Compressor's config
  host,     \* the platform's choices for the Huffman coder
  pc,       \* "idle", "compressed" (compress or compress_adaptive returned),
            \* "decompressed" (decompress returned)
  data,     \* the buffer given to compress / compress_adaptive
  req,      \* the method asked for, "Adaptive" for compress_adaptive
  out,      \* what compress / compress_adaptive returned
  env,      \* the envelope given to decompress
  tamper,   \* how env differs from out.env
  dec       \* what decompress returned

vars == << self, host, pc, data, req, out, env, tamper, dec >>

NoOut == [status |-> "none", err |-> "none", env |-> NoEnv, calls |-> << >>]
NoDec == [status |-> "none", err |-> "none", bytes |-> << >>, calls |-> << >>]

Init ==
  /\ self \in Configs
  /\ host \in Hosts
  /\ pc = "idle"
  /\ data = << >>
  /\ req = "none"
  /\ out = NoOut
  /\ env = NoEnv
  /\ tamper = "none"
  /\ dec = NoDec

\* compressor.compress(d, m)
Compress ==
  /\ pc = "idle"
  /\ \E d \in Inputs, m \in Methods :
       /\ data' = d
       /\ req' = m
       /\ out' = compress(self, host, d, m)
  /\ pc' = "compressed"
  /\ UNCHANGED << self, host, env, tamper, dec >>

\* compressor.compress_adaptive(d)
CompressAdaptive ==
  /\ pc = "idle"
  /\ \E d \in Inputs :
       /\ data' = d
       /\ out' = compress_adaptive(self, host, d)
  /\ req' = "Adaptive"
  /\ pc' = "compressed"
  /\ UNCHANGED << self, host, env, tamper, dec >>

\* compressor.decompress(&e) for the envelope e, however the caller got it
DecompressOf(e, how) ==
  /\ env' = e
  /\ tamper' = how
  /\ dec' = decompress(e)
  /\ pc' = "decompressed"
  /\ UNCHANGED << self, host, data, req, out >>

\* the envelope just produced
Decompress ==
  /\ pc = "compressed"
  /\ out.status = "ok"
  /\ DecompressOf(out.env, "none")

Tamperable == pc = "compressed" /\ out.status = "ok" /\ out.env.compressed_size <= MaxTamperSize

\* the envelope just produced, its data cut short
DecompressTruncated ==
  /\ Tamperable
  /\ \E keep \in (0..MaxDrop) \cup {Len(out.env.data) - j : j \in 1..MaxDrop} :
       /\ keep >= 0
       /\ keep < Len(out.env.data)
       /\ DecompressOf([out.env EXCEPT !.data = SubSeq(@, 1, keep)], "truncated")

\* the envelope just produced, with another original_size
DecompressResized ==
  /\ Tamperable
  /\ \E size \in {0, out.env.original_size - 1, out.env.original_size + 1, UsizeMax} :
       /\ size >= 0 \/ size = UsizeMax
       /\ size # out.env.original_size
       /\ DecompressOf([out.env EXCEPT !.original_size = size], "resized")

\* the envelope just produced, with another method tag
DecompressRetagged ==
  /\ Tamperable
  /\ \E m \in Methods \ {out.env.method} :
       DecompressOf([out.env EXCEPT !.method = m], "retagged")

\* the envelope just produced, one byte of its data replaced
DecompressPatched ==
  /\ Tamperable
  /\ \E at \in 1..Len(out.env.data), b \in RawBytes :
       /\ at <= MaxPatch \/ at > Len(out.env.data) - MaxPatch
       /\ b # out.env.data[at]
       /\ DecompressOf([out.env EXCEPT !.data[at] = b], "patched")

\* a hand-built envelope
DecompressRaw ==
  /\ pc = "idle"
  /\ \E m \in Methods, bytes \in RawBuffers, size \in (0..MaxLen) \cup {UsizeMax} :
       DecompressOf([NoEnv EXCEPT !.method = m, !.data = bytes, !.original_size = size,
                                  !.compressed_size = Len(bytes)], "raw")

\* the caller drops the buffers of the finished call
Return ==
  /\ pc # "idle"
  /\ pc' = "idle"
  /\ data' = << >>
  /\ req' = "none"
  /\ out' = NoOut
  /\ env' = NoEnv
  /\ tamper' = "none"
  /\ dec' = NoDec
  /\ UNCHANGED << self, host >>

Next ==
  \/ Compress
  \/ CompressAdaptive
  \/ Decompress
  \/ DecompressTruncated
  \/ DecompressResized
  \/ DecompressRetagged
  \/ DecompressPatched
  \/ DecompressRaw
  \/ Return

Spec == Init /\ [][Next]_vars

(***************************************************************************)
(* Properties.                                                             *)
(***************************************************************************)
Returned == pc \in {"compressed", "decompressed"}
ByMethod == Returned /\ req \in Codecs
ByAuto == Returned /\ req = "Auto"
ByAdaptive == Returned /\ req = "Adaptive"
Untampered == pc = "decompressed" /\ tamper = "none"

\* C1: round trip.  For a non-empty buffer and each of the four methods,
\* compress succeeds, and decompress of the envelope it returned succeeds
\* and returns the buffer.
C1_RoundTrip ==
  (ByMethod /\ data # << >>) =>
     /\ out.status = "ok"
     /\ out.env.method = req
     /\ Untampered => (dec.status = "ok" /\ dec.bytes = data)

\* a buffer of several dedup blocks, some repeated, went through
\* SemanticDedupe and back
C1_Witness ==
  /\ Untampered
  /\ req = "SemanticDedupe"
  /\ Len(data) > 2 * DedupBlockSize
  /\ DuplicateBlocks(data) > 0
  /\ dec.status = "ok"
  /\ dec.bytes = data

\* C2: no decoder reads outside its buffer: whatever bytes and original_size
\* decompress is given, it returns (a buffer or an error) and does not panic.
C2_NoOutOfBoundsRead ==
  pc = "decompressed" => dec.status \in {"ok", "err"}

\* C3: empty input.  compress with any method, Auto included, and
\* compress_adaptive refuse an empty buffer with EmptyInput, invoke no codec
\* and produce no envelope.
C3_EmptyInputRejected ==
  (Returned /\ req # "none" /\ data = << >>) =>
     /\ out.status = "err"
     /\ out.err = "EmptyInput"
     /\ out.calls = << >>
     /\ out.env = NoEnv

C3_Witness ==
  /\ pc = "compressed"
  /\ req = "Auto"
  /\ data = << >>
  /\ out.err = "EmptyInput"

\* C4: Auto resolution.  compress(d, Auto) on a non-empty d returns an
\* envelope whose method is select_method(d), never Auto; decompress of that
\* envelope invokes the codec of that method and returns d.
C4_AutoResolution ==
  (ByAuto /\ data # << >>) =>
     /\ out.status = "ok"
     /\ out.env.method # "Auto"
     /\ out.env.method = select_method(data)
     /\ Untampered =>
          /\ dec.calls = << out.env.method >>
          /\ dec.status = "ok"
          /\ dec.bytes = data

\* an Auto envelope resolved to the run-length coder was decoded again
C4_Witness ==
  /\ Untampered
  /\ req = "Auto"
  /\ out.env.method = "EntropyCoding"
  /\ Len(data) > DedupBlockSize
  /\ dec.bytes = data

\* what compress(d, select_method(d)) returns for the buffer of the state
StaticEnv == compress(self, host, data, select_method(data)).env
RepeatedBlocks(d) == DuplicateBlocks(d) > 0
LowEntropy(d) == compute_entropy(d) < 3 * EntropyUnit

\* C5: adaptive beats or matches static.  For a non-empty buffer that is
\* low-entropy or contains repeated 64-byte blocks, the ratio of
\* compress_adaptive is at most that of compress with select_method's choice.
C5_AdaptiveNeverWorse ==
  (pc = "compressed" /\ req = "Adaptive" /\ data # << >>
     /\ (LowEntropy(data) \/ RepeatedBlocks(data))) =>
     /\ out.status = "ok"
     /\ ~RatioLess(StaticEnv.ratio, out.env.ratio)

\* C6: adaptive selection.  compress_adaptive runs compress for every
\* candidate in list order; the envelope it returns is that of a successful
\* candidate whose ratio no successful candidate beats and every earlier
\* successful candidate exceeds; it fails, with EmptyInput, only when no
\* candidate succeeded.
C6_AdaptiveSelection ==
  (pc = "compressed" /\ req = "Adaptive" /\ data # << >>) =>
     LET cands == Candidates(data)
         res == [j \in 1..Len(cands) |-> compress(self, host, data, cands[j])]
         good == {j \in 1..Len(cands) : res[j].status = "ok"}
     IN  /\ out.calls = cands
         /\ (good = {}) <=> (out.status = "err")
         /\ out.status = "err" => out.err = "EmptyInput"
         /\ out.status = "ok" =>
              \E j \in good :
                 /\ out.env = res[j].env
                 /\ \A i \in good : ~RatioLess(res[i].env.ratio, res[j].env.ratio)
                 /\ \A i \in good : i < j => RatioLess(res[j].env.ratio, res[i].env.ratio)

\* two candidates tied exactly and the first of the list was returned
C6_Witness ==
  /\ pc = "compressed"
  /\ req = "Adaptive"
  /\ Len(out.calls) = 2
  /\ out.env.method = out.calls[1]
  /\ LET other == compress(self, host, data, out.calls[2]).env
     IN  ~RatioLess(other.ratio, out.env.ratio) /\ ~RatioLess(out.env.ratio, other.ratio)

\* C7: static policy.  compress(d, Auto) on a non-empty d uses Huffman when
\* the entropy is below 3.0, else Lz4Semantic when d has more than 4096
\* bytes, else EntropyCoding, and invokes that codec only.
C7_StaticPolicy ==
  (pc = "compressed" /\ req = "Auto" /\ data # << >>) =>
     LET e == compute_entropy(data)
         n == Len(data)
         expected == IF e < 3 * EntropyUnit THEN "Huffman"
                     ELSE IF n > 4096 THEN "Lz4Semantic"
                     ELSE "EntropyCoding"
     IN  /\ out.status = "ok"
         /\ out.env.method = expected
         /\ out.calls = << expected >>

\* Auto took the large-input branch
C7_Witness ==
  /\ pc = "compressed"
  /\ req = "Auto"
  /\ out.env.method = "Lz4Semantic"
  /\ out.calls = << "Lz4Semantic" >>

\* the repetition ratio r of the specification, as << duplicates, full blocks >>,
\* and the test r > 0.1
FullBlocks(d) == Len(d) \div 64
RepetitionOverTenth(d) == FullBlocks(d) > 0 /\ 10 * DuplicateBlocks(d) > FullBlocks(d)

\* C8: the candidates compress_adaptive tries are [Huffman] when e < 2.0,
\* else [SemanticDedupe, Lz4Semantic] when r > 0.1 and n > 256, else
\* [Lz4Semantic, Huffman] when n > 4096, else [EntropyCoding, Huffman]; and
\* detect_block_repetition(d) and n > 256 holds exactly when r > 0.1 and
\* n > 256.
C8_CandidateList ==
  (pc = "compressed" /\ req # "none" /\ data # << >>) =>
     LET e == compute_entropy(data)
         n == Len(data)
         expected == IF e < 2 * EntropyUnit THEN << "Huffman" >>
                     ELSE IF RepetitionOverTenth(data) /\ n > 256
                          THEN << "SemanticDedupe", "Lz4Semantic" >>
                     ELSE IF n > 4096 THEN << "Lz4Semantic", "Huffman" >>
                     ELSE << "EntropyCoding", "Huffman" >>
     IN  /\ req = "Adaptive" => out.calls = expected
         /\ (detect_block_repetition(data) /\ n > 256) <=> (RepetitionOverTenth(data) /\ n > 256)

\* the repeated-block branch was taken just above 256 bytes
C8_Witness ==
  /\ pc = "compressed"
  /\ req = "Adaptive"
  /\ out.calls = << "SemanticDedupe", "Lz4Semantic" >>
  /\ Len(data) < 5 * 64

\* C9: every envelope compress or compress_adaptive returns has a method
\* other than Auto, original_size = the input's length >= 1, compressed_size
\* = the length of its data, semantic_dedup_count = 0 and block_count =
\* max(1, original_size div lz4_block_size).
C9_EnvelopeInvariant ==
  (Returned /\ out.status = "ok") =>
     LET e == out.env IN
     /\ e.method \in Codecs
     /\ e.original_size = Len(data)
     /\ e.original_size >= 1
     /\ e.compressed_size = Len(e.data)
     /\ e.metadata.semantic_dedup_count = 0
     /\ e.metadata.block_count >= 1
     /\ \/ e.metadata.block_count = 1 /\ e.original_size < 2 * self.lz4_block_size
        \/ /\ e.metadata.block_count > 1
           /\ e.metadata.block_count * self.lz4_block_size <= e.original_size
           /\ e.original_size < (e.metadata.block_count + 1) * self.lz4_block_size

\* an envelope with more than one block that is not a multiple of the block size
C9_Witness ==
  /\ pc = "compressed"
  /\ out.status = "ok"
  /\ out.env.metadata.block_count > 1
  /\ out.env.original_size % self.lz4_block_size # 0
  /\ out.env.method = "SemanticDedupe"

\* C10: a Huffman envelope whose data was cut short is refused with a
\* HuffmanError.
C10_TruncatedHuffmanRejected ==
  (pc = "decompressed" /\ tamper = "truncated" /\ env.method = "Huffman") =>
     (dec.status = "err" /\ dec.err = "HuffmanError")

\* C11: decompress of an envelope whose stored method is Auto returns
\* InvalidMethod, whatever its data and original_size, and invokes no codec.
C11_AutoEnvelopeRejected ==
  (pc = "decompressed" /\ env.method = "Auto") =>
     /\ dec.status = "err"
     /\ dec.err = "InvalidMethod"
     /\ dec.bytes = << >>
     /\ dec.calls = << >>

\* a well-formed Huffman envelope whose tag was changed to Auto was refused
C11_Witness ==
  /\ pc = "decompressed"
  /\ tamper = "retagged"
  /\ env.method = "Auto"
  /\ out.env.method = "Huffman"
  /\ env.data # << >>
  /\ dec.err = "InvalidMethod"

\* one byte value repeated at least 100 times
Uniform(d) == Len(d) >= 100 /\ \A i \in 1..Len(d) : d[i] = d[1]

\* C12: uniform data through Auto.  For one byte value repeated n >= 100
\* times, compress(d, Auto) resolves to Huffman and returns a ratio below
\* 0.5, and decompress of the envelope returns d.
C12_UniformCompressesWell ==
  (ByAuto /\ Uniform(data)) =>
     /\ out.status = "ok"
     /\ out.env.method = "Huffman"
     /\ RatioLess(out.env.ratio, << 1, 2 >>)
     /\ Untampered => (dec.status = "ok" /\ dec.bytes = data)

\* a uniform buffer went through Auto and back
C12_Witness ==
  /\ Untampered
  /\ req = "Auto"
  /\ Uniform(data)
  /\ 2 * out.env.compressed_size < Len(data)
  /\ dec.bytes = data

\* the code table build_tree and build_codes give the buffer of the state
CodeTable == build_codes(build_tree(data, host.tie)[1], << >>)
IsPrefix(a, b) == Len(a) <= Len(b) /\ SubSeq(b, 1, Len(a)) = a

\* one code for each byte value of d and for no other, each of at least one
\* bit, none a prefix of another; the one code 0 for a single byte value
IsPrefixCodeTable(codes, d) ==
  /\ {c[1] : c \in codes} = Symbols(d)
  /\ Cardinality(codes) = Cardinality(Symbols(d))
  /\ \A c \in codes : Len(c[2]) >= 1
  /\ \A c1, c2 \in codes : c1 # c2 => ~IsPrefix(c1[2], c2[2])
  /\ Cardinality(Symbols(d)) = 1 => codes = {<< d[1], << FALSE >> >>}

\* C13: Huffman code table.  For a non-empty buffer, build_tree followed by
\* build_codes gives one code to each byte value of the buffer and to no
\* other, every code has at least one bit, no code is a prefix of another,
\* and a buffer of a single byte value gets the one code 0.
C13_PrefixCodes ==
  (pc = "compressed" /\ out.status = "ok" /\ out.env.method = "Huffman") =>
     IsPrefixCodeTable(CodeTable, data)

\* Huffman coded a buffer whose byte values got codes of different lengths
C13_Witness ==
  /\ pc = "compressed"
  /\ out.status = "ok"
  /\ out.env.method = "Huffman"
  /\ \E c1, c2 \in CodeTable : Len(c1[2]) < Len(c2[2])

\* C14: Huffman decoding stops at the target length.  decompress of
\* well-formed Huffman data, whatever original_size it is given, returns at
\* most original_size bytes.
C14_HuffmanStopsAtOriginalSize ==
  (pc = "decompressed" /\ tamper \in {"none", "resized"}
     /\ env.method = "Huffman" /\ dec.status = "ok") =>
     Len(dec.bytes) <= env.original_size

\* the reference list at pos of a dedup buffer against the blocks of the input
DedupRefsMatch(bytes, chunks, blocks, pos) ==
  LET nr == FromLE32(bytes, pos)
      ref(j) == FromLE32(bytes, pos + 4 * j)
  IN  /\ nr = Len(chunks)
      /\ Len(bytes) = pos + 4 + 4 * nr
      /\ \A j \in 1..nr : ref(j) < Len(blocks) /\ blocks[ref(j) + 1] = chunks[j]
      /\ \A j \in 1..nr : ref(j) <= Cardinality({ref(i) : i \in 1..(j - 1)})

\* the block table of a dedup buffer against the blocks of the input
DedupBlocksMatch(bytes, chunks, tb) ==
  /\ ~tb.err
  /\ Len(tb.blocks) = FromLE32(bytes, 0)
  /\ Len(tb.blocks) = Cardinality({chunks[j] : j \in 1..Len(chunks)})
  /\ \A i, k \in 1..Len(tb.blocks) : i # k => tb.blocks[i] # tb.blocks[k]
  /\ DedupRefsMatch(bytes, chunks, tb.blocks, tb.pos)

\* C15: dedup encoding.  The output of semantic::compress holds the count of
\* distinct 64-byte blocks of the input, each distinct block once, in order
\* of first occurrence, then ceil(n/64) references, one per input block in
\* input order, each the index of that block's content.
C15_DedupEncoding ==
  (pc = "compressed" /\ out.status = "ok" /\ out.env.method = "SemanticDedupe") =>
     /\ Len(Chunks(data, 64)) = (Len(data) + 63) \div 64
     /\ DedupBlocksMatch(out.env.data, Chunks(data, 64),
                         SemanticReadBlocks(out.env.data, FromLE32(out.env.data, 0)))

\* a buffer with repeated blocks and a short last block was encoded
C15_Witness ==
  /\ pc = "compressed"
  /\ out.status = "ok"
  /\ out.env.method = "SemanticDedupe"
  /\ Len(data) > 2 * 64
  /\ Len(data) % 64 # 0
  /\ DuplicateBlocks(data) > 0

\* the blocks the references name, concatenated in reference order
RECURSIVE ConcatBlocks(_, _)
ConcatBlocks(blocks, refs) ==
  IF refs = << >> THEN << >>
  ELSE blocks[Head(refs) + 1] \o ConcatBlocks(blocks, Tail(refs))

RECURSIVE SumLen(_, _)
SumLen(blocks, refs) ==
  IF refs = << >> THEN 0 ELSE Len(blocks[Head(refs) + 1]) + SumLen(blocks, Tail(refs))

\* the j-th reference of the list at pos, and how many of the nr announced
\* references the buffer holds in full
RefAt(bytes, pos, j) == FromLE32(bytes, pos + 4 * j)
RefsHeld(bytes, pos, nr) == Min(nr, (Len(bytes) - pos - 4) \div 4)

\* what decompress returned, d, against the reference list at pos
DedupRefsDecoded(bytes, blocks, pos, nr, d) ==
  IF \E j \in 1..RefsHeld(bytes, pos, nr) : RefAt(bytes, pos, j) >= Len(blocks)
  THEN d.status = "err" /\ d.err = "SemanticError" /\ d.bytes = << >>
  ELSE RefsHeld(bytes, pos, nr) = nr =>
         /\ d.status = "ok"
         /\ d.bytes = ConcatBlocks(blocks, [j \in 1..nr |-> RefAt(bytes, pos, j)])
         /\ Len(d.bytes) = SumLen(blocks, [j \in 1..nr |-> RefAt(bytes, pos, j)])

\* d against a dedup buffer whose block table tb was read in full
DedupDecoded(bytes, tb, d) ==
  (~tb.err /\ tb.pos + 4 <= Len(bytes)) =>
     DedupRefsDecoded(bytes, tb.blocks, tb.pos, FromLE32(bytes, tb.pos), d)

\* the buffer given to decompress has a reference past its block table
HasInvalidRef(bytes, tb) ==
  /\ ~tb.err
  /\ tb.pos + 4 <= Len(bytes)
  /\ \E j \in 1..RefsHeld(bytes, tb.pos, FromLE32(bytes, tb.pos)) :
        RefAt(bytes, tb.pos, j) >= Len(tb.blocks)

\* C16: dedup decoding.  semantic::decompress returns the referenced blocks
\* concatenated in reference order, its output as long as their lengths
\* together; a reference at or past the number of unique blocks makes it
\* return SemanticError and no output.
C16_DedupDecoding ==
  (pc = "decompressed" /\ env.method = "SemanticDedupe" /\ Len(env.data) >= 4) =>
     DedupDecoded(env.data, SemanticReadBlocks(env.data, FromLE32(env.data, 0)), dec)

\* a dedup envelope with a reference patched past its block table was refused
C16_Witness ==
  /\ pc = "decompressed"
  /\ tamper = "patched"
  /\ env.method = "SemanticDedupe"
  /\ HasInvalidRef(env.data, SemanticReadBlocks(env.data, FromLE32(env.data, 0)))
  /\ dec.err = "SemanticError"

\* the run lengths of a run-length buffer, added up
RunTotal(bytes) ==
  LET Add(acc, p) == acc + bytes[2 * p - 1]
  IN  FoldRange(Add, 0, 1, Len(bytes) \div 2)

\* bytes is a sequence of (run_length, byte_value) pairs for n input bytes
IsRunLengthPairs(bytes, n) ==
  /\ Len(bytes) % 2 = 0
  /\ \A p \in 1..(Len(bytes) \div 2) : bytes[2 * p - 1] >= 1 /\ bytes[2 * p - 1] <= 255
  /\ RunTotal(bytes) = n

\* C17: run-length format.  entropy::compress emits (run_length, byte_value)
\* pairs with every run_length in 1..255 and the run lengths adding up to
\* the input length, so a longer run takes several pairs; entropy::decompress
\* returns EntropyError for a payload of odd length.
C17_RunLengthFormat ==
  /\ (pc = "compressed" /\ out.status = "ok" /\ out.env.method = "EntropyCoding") =>
        IsRunLengthPairs(out.env.data, Len(data))
  /\ (pc = "decompressed" /\ env.method = "EntropyCoding" /\ Len(env.data) % 2 = 1) =>
        (dec.status = "err" /\ dec.err = "EntropyError")

\* a run of more than 255 bytes took two pairs, and the payload cut to an
\* odd length was refused
C17_Witness ==
  /\ pc = "decompressed"
  /\ tamper = "truncated"
  /\ out.env.method = "EntropyCoding"
  /\ Len(out.env.data) = 4
  /\ out.env.data[1] = 255
  /\ out.env.data[2] = out.env.data[4]
  /\ Len(env.data) % 2 = 1
  /\ dec.err = "EntropyError"

\* the methods whose decoders do not look at original_size while decoding
SizeBlindMethods == {"Lz4Semantic", "EntropyCoding", "SemanticDedupe"}

\* d is also what decompress returns for e with another original_size
SameForOtherSizes(e, d) ==
  \A size \in {0, e.original_size + 1, UsizeMax} :
     decompress([e EXCEPT !.original_size = size]) = d

\* C18: for the methods Lz4Semantic, EntropyCoding and SemanticDedupe the
\* outcome of decompress is the same for envelopes that differ only in
\* original_size, and a decoded length other than original_size is a
\* success, never a SizeMismatch error.
C18_OriginalSizeIgnored ==
  (pc = "decompressed" /\ env.method \in SizeBlindMethods) =>
     /\ dec.err # "SizeMismatch"
     /\ SameForOtherSizes(env, dec)

====
